---------------------------- MODULE Spec2Model ----------------------------
(***************************************************************************)
(* Art-07: seven standalone scripts that drive a 3D host's scripting API.  *)
(* The host session (objects, materials, selection, scene settings, the    *)
(* images written) is the state; each script is a straight-line list of    *)
(* statements, every statement one host call with the attribute writes     *)
(* that configure what the call created.                                   *)
(*                                                                         *)
(* Lengths are fixed-point integers, 7000 units to 1.0, so that tenths,    *)
(* hundredths and the sevenths of the stair formulas are exact.  Colours   *)
(* and Euler rotations written to created objects are not tracked.         *)
(***************************************************************************)
EXTENDS Integers, Sequences, FiniteSets, TLC

VARIABLES
    objects,      \* bpy.data.objects: set of object records
    materials,    \* bpy.data.materials: set of material records
    selection,    \* ids of the selected objects
    active,       \* id of bpy.context.active_object (0: none)
    scene,        \* bpy.context.scene: camera, filepath, resolution, engine
    renders,      \* images written by bpy.ops.render.render, in order
    principled,   \* does a new material's node tree hold "Principled BSDF"
    nextId,       \* next datablock identity the host hands out
    run,          \* number of script executions started in this session
    script,       \* the script being executed ("" before the first)
    status,       \* "idle", "running", "done" or "error"
    pc,           \* index of the next statement of the running script
    rng,          \* state of Python's random module (-1: not imported yet)
    py,           \* Python variables: height, objects_for_metaball, bindings
    lastCall,     \* the host call issued by the last step
    twin          \* two side-by-side executions of one grid script

vars == <<objects, materials, selection, active, scene, renders, principled,
          nextId, run, script, status, pc, rng, py, lastCall, twin>>

hostVars == <<objects, materials, selection, active, scene, renders,
              principled, nextId, run, script, status, pc, rng, py, lastCall>>

(***************************************************************************)
(* Bounds of the model.                                                    *)
(***************************************************************************)
MaxRuns == 2        \* script executions per host session
NumSeeds == 2       \* entropy seeds Python may give an unseeded generator

(***************************************************************************)
(* Fixed-point arithmetic.                                                 *)
(***************************************************************************)
Scale == 7 * 1000

\* a length given in thousandths
M(x) == 7 * x

\* x * (n / d)
Mul(x, n, d) == (x * n) \div d

Min(a, b) == IF a < b THEN a ELSE b
Max(a, b) == IF a > b THEN a ELSE b

\* math.sin(math.radians(a)) and math.cos(math.radians(a)) for the four
\* portico angles; the residues of order 1e-16 that the floating-point
\* library returns in place of 0 are below the resolution.
SinDeg(a) == CASE a = 0 -> 0 [] a = 90 -> Scale [] a = 180 -> 0 [] a = 270 -> -Scale
CosDeg(a) == CASE a = 0 -> Scale [] a = 90 -> 0 [] a = 180 -> -Scale [] a = 270 -> 0

(***************************************************************************)
(* Python's random module: a generator whose output is a function of its   *)
(* state alone.  Draws have a resolution of 1/100.                         *)
(***************************************************************************)
NextRng(x) == (75 * x + 74) % 65537

\* random.random() in hundredths, from the state after the draw
RandUnit(x) == (NextRng(x) * 100) \div 65537

\* random.seed(n)
SeedRng(n) == n % 65537

(***************************************************************************)
(* Statements.                                                             *)
(***************************************************************************)
Stmt(op) ==
    [op |-> op, kind |-> "", name |-> "", var |-> "", target |-> "",
     loc |-> <<0, 0, 0>>, dims |-> <<0, 0, 0>>, mat |-> "",
     c |-> -1, r |-> -1, k |-> 0, calc |-> "", guard |-> "",
     path |-> "", res |-> <<0, 0>>, site |-> 0]

SelectAll(action) == [Stmt("select_all") EXCEPT !.kind = action]
Delete == Stmt("delete")
MaterialNew(kind, name, target) ==
    [Stmt("material_new") EXCEPT !.kind = kind, !.name = name, !.target = target]
Primitive(kind, name, var, loc, dims, mat) ==
    [Stmt("primitive_add") EXCEPT !.kind = kind, !.name = name, !.var = var,
                                  !.loc = loc, !.dims = dims, !.mat = mat]
Element(loc, radius) ==
    [Stmt("element_new") EXCEPT !.loc = loc, !.dims = <<radius, radius, radius>>,
                                !.target = "meta_obj"]
LightAdd(kind, loc) == [Stmt("light_add") EXCEPT !.kind = kind, !.name = "Light", !.loc = loc]
CameraAdd(kind, name, var, loc) ==
    [Stmt("camera_add") EXCEPT !.kind = kind, !.name = name, !.var = var, !.loc = loc]
SetCamera(var) == [Stmt("set_camera") EXCEPT !.var = var]
SetEngine == Stmt("set_engine")
SetResolution(x, y) == [Stmt("set_resolution") EXCEPT !.res = <<x, y>>]
SetFilepath(path) == [Stmt("set_filepath") EXCEPT !.path = path]
Render(site) == [Stmt("render") EXCEPT !.site = site]

(***************************************************************************)
(* create_art.py                                                           *)
(***************************************************************************)
CA_positions ==
    << <<M(0), M(0), M(0), M(1500)>>,
       <<M(2000), M(1000), M(500), M(800)>>,
       <<M(-1500), M(800), M(-300), M(900)>>,
       <<M(500), M(-1200), M(800), M(600)>>,
       <<M(-800), M(-500), M(1200), M(700)>>,
       <<M(1200), M(300), M(-900), M(500)>> >>

CA_OUTPUT == "/data/.openclaw/workspace/art/socrates_first_render.png"

StmtsCreateArt ==
    << SelectAll("SELECT"), Delete, Stmt("remove_lights_cameras"),
       Primitive("metaball", "BlobCluster", "meta_obj", <<0, 0, 0>>,
                 <<M(1000), M(1000), M(1000)>>, "") >>
    \o [i \in 1..Len(CA_positions) |->
          Element(<<CA_positions[i][1], CA_positions[i][2], CA_positions[i][3]>>,
                  CA_positions[i][4])]
    \o << MaterialNew("custom", "BlobMaterial", "meta_obj"),
          LightAdd("SUN", <<M(5000), M(5000), M(10000)>>),
          LightAdd("AREA", <<M(-5000), M(-3000), M(5000)>>),
          LightAdd("SPOT", <<M(0), M(-8000), M(2000)>>),
          Primitive("plane", "Ground", "ground", <<0, 0, M(-2000)>>,
                    <<M(20000), M(20000), 0>>, ""),
          MaterialNew("guarded", "GroundMaterial", "ground"),
          CameraAdd("PERSP", "Camera", "camera", <<M(6000), M(-6000), M(4000)>>),
          SelectAll("DESELECT"),
          [Stmt("select_set") EXCEPT !.var = "camera"],
          [Stmt("constraint_add") EXCEPT !.kind = "TRACK_TO", !.var = "camera",
                                         !.target = "meta_obj"],
          SetCamera("camera"), SetEngine, SetResolution(800, 600),
          SetFilepath(CA_OUTPUT), Render(1) >>

\* the concatenation of a sequence of sequences
RECURSIVE Concat(_)
Concat(ss) == IF ss = <<>> THEN <<>> ELSE Head(ss) \o Concat(Tail(ss))

(***************************************************************************)
(* villa_rotonda.py                                                        *)
(***************************************************************************)
VR_MODULE == M(2000)
VR_BUILDING_SIZE == Mul(VR_MODULE, 105, 10)
VR_BASEMENT_HEIGHT == Mul(VR_MODULE, 25, 10)
VR_PIANO_NOBILE_HEIGHT == VR_MODULE * 4
VR_ATTIC_HEIGHT == Mul(VR_MODULE, 12, 10)
VR_PORTICO_DEPTH == VR_MODULE * 3
VR_PORTICO_WIDTH == VR_MODULE * 8
VR_COLUMN_HEIGHT == Mul(VR_MODULE, 32, 10)
VR_COLUMN_RADIUS == Mul(VR_MODULE, 22, 100)
VR_INTERCOLUMNATION == Mul(VR_MODULE, 18, 10)
VR_CENTRAL_HALL_DIAMETER == VR_MODULE * 6
VR_DOME_DRUM_HEIGHT == Mul(VR_MODULE, 15, 10)

VR_materials ==
    << "StoneBase", "StuccoWall", "MarbleColumn", "RoofTile", "WindowGlass",
       "DomeLead", "InteriorWall" >>

\* create_cube: a cube of edge 1 at `location`, its scale set to `size`
VR_create_cube(name, size, location, material) ==
    Primitive("cube", name, "", location, size, material)

\* create_cylinder: dims are <<radius, radius, depth>>
VR_create_cylinder(name, radius, depth, location, material) ==
    Primitive("cylinder", name, "", location, <<radius, radius, depth>>, material)

VR_num_steps == 7

\* the slab sizes create_portico passes to create_cube
PorticoRoofSize(direction_angle) ==
    <<VR_PORTICO_WIDTH \div 2, VR_PORTICO_DEPTH \div 2, M(300)>>

PorticoStepSize(direction_angle) ==
    LET stair_width == Mul(VR_PORTICO_WIDTH, 7, 10)
        stair_depth == Mul(VR_PORTICO_DEPTH, 4, 10)
        step_height == VR_BASEMENT_HEIGHT \div VR_num_steps
    IN  <<stair_width \div 2, (stair_depth \div VR_num_steps) \div 2, step_height \div 2>>

create_portico(direction_angle, name_suffix) ==
    LET offset == VR_BUILDING_SIZE \div 2 + VR_PORTICO_DEPTH \div 2
        x == (SinDeg(direction_angle) * offset) \div Scale
        y == (CosDeg(direction_angle) * offset) \div Scale
        stair_depth == Mul(VR_PORTICO_DEPTH, 4, 10)
        step_height == VR_BASEMENT_HEIGHT \div VR_num_steps
        Column(i) ==
            LET col_x_offset == ((2 * i - 5) * VR_INTERCOLUMNATION) \div 2
                col_x == IF direction_angle \in {0, 180} THEN x + col_x_offset ELSE x
                col_y == IF direction_angle \in {0, 180} THEN y ELSE y + col_x_offset
            IN  VR_create_cylinder("Column_" \o name_suffix \o "_" \o ToString(i),
                    VR_COLUMN_RADIUS, VR_COLUMN_HEIGHT,
                    <<col_x, col_y, VR_BASEMENT_HEIGHT + VR_COLUMN_HEIGHT \div 2>>,
                    "MarbleColumn")
        Step(i) ==
            LET step_z == ((2 * i + 1) * step_height) \div 2
                step_offset == ((2 * i + 1) * (stair_depth \div VR_num_steps)) \div 2
                step_x == x + (SinDeg(direction_angle) * step_offset) \div Scale
                step_y == y + (CosDeg(direction_angle) * step_offset) \div Scale
            IN  VR_create_cube("Stairs_" \o name_suffix \o "_" \o ToString(i),
                    PorticoStepSize(direction_angle), <<step_x, step_y, step_z>>,
                    "StoneBase")
    IN  << VR_create_cube("PorticoRoof_" \o name_suffix, PorticoRoofSize(direction_angle),
                <<x, y, VR_BASEMENT_HEIGHT + VR_PIANO_NOBILE_HEIGHT + M(500)>>,
                "StuccoWall") >>
        \o [j \in 1..6 |-> Column(j - 1)]
        \o [j \in 1..VR_num_steps |-> Step(j - 1)]

VR_porticos == << <<0, "N">>, <<90, "E">>, <<180, "S">>, <<270, "W">> >>

VR_window_positions ==
    LET h == VR_BUILDING_SIZE \div 2
        q == VR_BUILDING_SIZE \div 4
    IN  << <<0, -h + M(200)>>, <<0, h - M(200)>>, <<h - M(200), 0>>, <<-h + M(200), 0>>,
           <<q, -h + M(200)>>, <<-q, -h + M(200)>>, <<q, h - M(200)>>, <<-q, h - M(200)>> >>

VR_PATH_PERSPECTIVE == "/data/.openclaw/workspace/art/villa_rotonda_perspective.png"
VR_PATH_PLAN == "/data/.openclaw/workspace/art/villa_rotonda_plan.png"
VR_PATH_SECTION == "/data/.openclaw/workspace/art/villa_rotonda_section.png"
VR_PATH_ELEVATION == "/data/.openclaw/workspace/art/villa_rotonda_elevation.png"

\* a villa_rotonda that renders its perspective view only
VR_views_PerspectiveOnly == << <<"persp_cam", VR_PATH_PERSPECTIVE>> >>

\* a villa_rotonda that renders the section with the elevation's camera
VR_views_WrongCamera ==
    << <<"persp_cam", VR_PATH_PERSPECTIVE>>, <<"plan_cam", VR_PATH_PLAN>>,
       <<"front_cam", VR_PATH_SECTION>>, <<"front_cam", VR_PATH_ELEVATION>> >>

\* the four views rendered at the end: camera variable, output path
VR_views ==
    << <<"persp_cam", VR_PATH_PERSPECTIVE>>, <<"plan_cam", VR_PATH_PLAN>>,
       <<"section_cam", VR_PATH_SECTION>>, <<"front_cam", VR_PATH_ELEVATION>> >>

StmtsVillaRotonda ==
    LET half == VR_BUILDING_SIZE \div 2
        top == VR_BASEMENT_HEIGHT + VR_PIANO_NOBILE_HEIGHT + VR_ATTIC_HEIGHT
        hall_r == VR_CENTRAL_HALL_DIAMETER \div 2
        lantern_base == top + VR_DOME_DRUM_HEIGHT + VR_CENTRAL_HALL_DIAMETER \div 4
        win_width == Mul(VR_MODULE, 6, 10)
        win_height == Mul(VR_MODULE, 18, 10)
        win_z == VR_BASEMENT_HEIGHT + Mul(VR_PIANO_NOBILE_HEIGHT, 6, 10)
        cam_dist == Mul(VR_BUILDING_SIZE, 25, 10)
        mid_z == VR_BASEMENT_HEIGHT + VR_PIANO_NOBILE_HEIGHT \div 2
    IN  << SelectAll("SELECT"), Delete >>
        \o [i \in 1..Len(VR_materials) |-> MaterialNew("guarded", VR_materials[i], "")]
        \o << VR_create_cube("Basement",
                  <<half + M(200), half + M(200), VR_BASEMENT_HEIGHT \div 2>>,
                  <<0, 0, VR_BASEMENT_HEIGHT \div 2>>, "StoneBase"),
              VR_create_cube("MainBody",
                  <<half - M(100), half - M(100), VR_PIANO_NOBILE_HEIGHT \div 2>>,
                  <<0, 0, VR_BASEMENT_HEIGHT + VR_PIANO_NOBILE_HEIGHT \div 2>>, "StuccoWall") >>
        \o Concat([i \in 1..Len(VR_porticos) |->
                      create_portico(VR_porticos[i][1], VR_porticos[i][2])])
        \o << VR_create_cube("Attic",
                  <<half - M(300), half - M(300), VR_ATTIC_HEIGHT \div 2>>,
                  <<0, 0, VR_BASEMENT_HEIGHT + VR_PIANO_NOBILE_HEIGHT + VR_ATTIC_HEIGHT \div 2>>,
                  "StuccoWall"),
              VR_create_cylinder("DomeDrum", hall_r + M(300), VR_DOME_DRUM_HEIGHT,
                  <<0, 0, top + VR_DOME_DRUM_HEIGHT \div 2>>, "StuccoWall"),
              Primitive("uv_sphere", "Dome", "", <<0, 0, top + VR_DOME_DRUM_HEIGHT>>,
                  <<hall_r + M(300), hall_r + M(300), (hall_r + M(300)) \div 2>>, "DomeLead"),
              Primitive("cylinder", "Lantern", "", <<0, 0, lantern_base + VR_MODULE \div 2>>,
                  <<VR_CENTRAL_HALL_DIAMETER \div 10, VR_CENTRAL_HALL_DIAMETER \div 10, VR_MODULE>>,
                  "StuccoWall"),
              Primitive("uv_sphere", "LanternDome", "", <<0, 0, lantern_base + VR_MODULE>>,
                  <<VR_CENTRAL_HALL_DIAMETER \div 8, VR_CENTRAL_HALL_DIAMETER \div 8,
                    VR_CENTRAL_HALL_DIAMETER \div 16>>, "DomeLead"),
              VR_create_cube("MainRoof", <<half + M(500), half + M(500), VR_MODULE>>,
                  <<0, 0, top + VR_MODULE \div 2 - M(300)>>, "RoofTile") >>
        \o [i \in 1..Len(VR_window_positions) |->
              VR_create_cube("Window_" \o ToString(i - 1),
                  <<win_width \div 2, M(100), win_height \div 2>>,
                  <<VR_window_positions[i][1], VR_window_positions[i][2], win_z>>,
                  "WindowGlass")]
        \o << VR_create_cylinder("HallLower", hall_r - M(500),
                  Mul(VR_PIANO_NOBILE_HEIGHT, 6, 10),
                  <<0, 0, VR_BASEMENT_HEIGHT + Mul(VR_PIANO_NOBILE_HEIGHT, 3, 10)>>,
                  "InteriorWall"),
              LightAdd("SUN", <<M(25000), M(-25000), M(35000)>>),
              LightAdd("AREA", <<M(-20000), M(15000), M(20000)>>),
              CameraAdd("PERSP", "PerspectiveCamera", "persp_cam",
                  <<Mul(cam_dist, 7, 10), -Mul(cam_dist, 7, 10), Mul(VR_BUILDING_SIZE, 8, 10)>>),
              CameraAdd("ORTHO", "PlanCamera", "plan_cam", <<0, 0, VR_BUILDING_SIZE * 2>>),
              CameraAdd("ORTHO", "SectionCamera", "section_cam",
                  <<VR_BUILDING_SIZE * 2, 0, mid_z>>),
              CameraAdd("ORTHO", "FrontElevationCamera", "front_cam",
                  <<0, -VR_BUILDING_SIZE * 2, mid_z>>),
              SetEngine, SetResolution(1600, 1200) >>
        \o Concat([i \in 1..Len(VR_views) |->
                      << SetCamera(VR_views[i][1]), SetFilepath(VR_views[i][2]), Render(i) >>])

(***************************************************************************)
(* palladian_villa.py                                                      *)
(***************************************************************************)
PV_MODULE == M(2000)
PV_VILLA_WIDTH == PV_MODULE * 16
PV_VILLA_DEPTH == PV_MODULE * 10
PV_VILLA_HEIGHT_BASE == Mul(PV_MODULE, 25, 10)
PV_VILLA_HEIGHT_PIANO == Mul(PV_MODULE, 35, 10)
PV_VILLA_HEIGHT_ATTIC == Mul(PV_MODULE, 15, 10)
PV_COL_HEIGHT == PV_VILLA_HEIGHT_PIANO
PV_COL_RADIUS == Mul(PV_MODULE, 25, 100)
PV_COL_SPACING == Mul(PV_MODULE, 25, 10)
PV_stairs_steps == 7

PV_materials == << "RusticStone", "RefinedStucco", "Marble", "RoofTiles", "WindowGlass" >>

\* create_cube followed by obj.data.materials.append(material)
PV_create_cube(name, size, location, material) ==
    Primitive("cube", name, "", location, size, material)

PV_create_cylinder(name, radius, depth, location, material) ==
    Primitive("cylinder", name, "", location, <<radius, radius, depth>>, material)

PV_portico_depth == PV_VILLA_DEPTH \div 2 + PV_COL_RADIUS * 2

\* the body of the column loop for one i: the front column and, when it is
\* off the axis, its mirror image
PV_columns(i) ==
    LET x_offset == (i - 1) * PV_COL_SPACING * 2
        z == PV_VILLA_HEIGHT_BASE + PV_COL_HEIGHT \div 2
    IN  << PV_create_cylinder("Column_F_" \o ToString(i), PV_COL_RADIUS, PV_COL_HEIGHT,
               <<0 + x_offset, PV_portico_depth, z>>, "Marble") >>
        \o (IF x_offset # 0
            THEN << PV_create_cylinder("Column_F_" \o ToString(i) \o "_mir",
                        PV_COL_RADIUS, PV_COL_HEIGHT,
                        <<0 - x_offset, PV_portico_depth, z>>, "Marble") >>
            ELSE << >>)

\* win_positions, with the text the f-string gives each name
PV_win_positions ==
    << <<PV_MODULE * 3, 0, "6.0_0">>, <<PV_MODULE * 5, 0, "10.0_0">>,
       <<PV_MODULE * 7, 0, "14.0_0">>, <<0, PV_MODULE * 3, "0_6.0">>,
       <<0, PV_MODULE * 4, "0_8.0">> >>

PV_windows(p) ==
    LET x == p[1]
        y == IF p[2] # 0 THEN p[2] ELSE PV_VILLA_DEPTH \div 2 - M(300)
        win_z == PV_VILLA_HEIGHT_BASE + Mul(PV_VILLA_HEIGHT_PIANO, 6, 10)
        size == <<Mul(PV_MODULE, 8, 10) \div 2, M(200), Mul(PV_MODULE, 15, 10) \div 2>>
    IN  IF x # 0
        THEN << PV_create_cube("Window_" \o p[3], size, <<0 + x, y, win_z>>, "WindowGlass"),
                PV_create_cube("Window_mir_" \o p[3], size, <<0 - x, y, win_z>>, "WindowGlass") >>
        ELSE << >>

PV_step(i) ==
    LET stairs_width == PV_COL_SPACING * 4
        stairs_depth == Mul(PV_MODULE, 15, 10)
        step_height == PV_VILLA_HEIGHT_BASE \div PV_stairs_steps
        step_depth == stairs_depth \div PV_stairs_steps
        y_pos == PV_portico_depth + stairs_depth - ((2 * i + 1) * step_depth) \div 2
        z_pos == ((2 * i + 1) * step_height) \div 2
    IN  PV_create_cube("Step_" \o ToString(i),
            <<stairs_width \div 2, step_depth \div 2, step_height \div 2>>,
            <<0, y_pos, z_pos>>, "RusticStone")

PV_OUTPUT == "/data/.openclaw/workspace/art/palladian_villa.png"

StmtsPalladianVilla ==
    LET hw == PV_VILLA_WIDTH \div 2
        hd == PV_VILLA_DEPTH \div 2
        piano_y == PV_VILLA_HEIGHT_BASE + PV_VILLA_HEIGHT_PIANO \div 2
        attic_y == PV_VILLA_HEIGHT_BASE + PV_VILLA_HEIGHT_PIANO + PV_VILLA_HEIGHT_ATTIC \div 2
        pediment_width == Mul(PV_VILLA_WIDTH, 6, 10)
        pediment_height == PV_MODULE * 2
        pediment_depth == Mul(PV_VILLA_DEPTH, 3, 10)
        roof_y == PV_VILLA_HEIGHT_BASE + PV_VILLA_HEIGHT_PIANO + PV_VILLA_HEIGHT_ATTIC
        pediment_y == roof_y + pediment_height \div 2
        dome_base == roof_y + pediment_height
        dome_radius == Mul(pediment_width, 35, 100)
        roof_height == Mul(PV_MODULE, 15, 10)
        cam_distance == Mul(Max(PV_VILLA_WIDTH, PV_VILLA_DEPTH), 18, 10)
    IN  << SelectAll("SELECT"), Delete >>
        \o [i \in 1..Len(PV_materials) |-> MaterialNew("guarded", PV_materials[i], "")]
        \o << PV_create_cube("Base", <<hw, hd, PV_VILLA_HEIGHT_BASE \div 2>>,
                  <<0, 0, PV_VILLA_HEIGHT_BASE \div 2>>, "RusticStone") >>
        \o [j \in 1..5 |->
              PV_create_cube("RusticBand_" \o ToString(j - 1),
                  <<hw + M(100), hd + M(100), M(50)>>,
                  <<0, 0, ((2 * (j - 1) + 1) * (PV_VILLA_HEIGHT_BASE \div 5)) \div 2>>,
                  "RusticStone")]
        \o << PV_create_cube("PianoNobile",
                  <<hw - M(200), hd - M(200), PV_VILLA_HEIGHT_PIANO \div 2>>,
                  <<0, 0, piano_y>>, "RefinedStucco"),
              PV_create_cube("Attic",
                  <<hw - M(400), hd - M(400), PV_VILLA_HEIGHT_ATTIC \div 2>>,
                  <<0, 0, attic_y>>, "RefinedStucco"),
              PV_create_cube("Pediment",
                  <<pediment_width \div 2, pediment_depth \div 2, pediment_height \div 2>>,
                  <<0, 0, pediment_y>>, "RefinedStucco") >>
        \o Concat([j \in 1..3 |-> PV_columns(j - 1)])
        \o Concat([j \in 1..Len(PV_win_positions) |-> PV_windows(PV_win_positions[j])])
        \o << Primitive("cylinder", "DomeDrum", "", <<0, 0, dome_base + PV_MODULE \div 2>>,
                  <<dome_radius, dome_radius, PV_MODULE>>, "RefinedStucco"),
              Primitive("uv_sphere", "Dome", "", <<0, 0, dome_base + PV_MODULE>>,
                  <<dome_radius, dome_radius, Mul(dome_radius, 6, 10)>>, "RefinedStucco"),
              Primitive("cylinder", "Cupola", "",
                  <<0, 0, dome_base + PV_MODULE + Mul(dome_radius, 6, 10)>>,
                  <<Mul(dome_radius, 15, 100), Mul(dome_radius, 15, 100), Mul(PV_MODULE, 8, 10)>>,
                  "Marble"),
              PV_create_cube("Roof", <<hw + M(300), hd + M(300), roof_height \div 2>>,
                  <<0, 0, roof_y + roof_height \div 2>>, "RoofTiles") >>
        \o [j \in 1..PV_stairs_steps |-> PV_step(j - 1)]
        \o << LightAdd("SUN", <<M(20000), M(-20000), M(30000)>>),
              LightAdd("AREA", <<M(-15000), M(10000), M(15000)>>),
              LightAdd("SUN", <<M(0), M(30000), M(10000)>>),
              \* cos(30 deg) and sin(30 deg), rounded to thousandths
              CameraAdd("PERSP", "ArchitectCamera", "camera",
                  <<Mul(cam_distance, 866, 1000), -Mul(cam_distance, 500, 1000),
                    PV_VILLA_HEIGHT_BASE + PV_VILLA_HEIGHT_PIANO>>),
              SetCamera("camera"), SetEngine, SetResolution(1200, 900),
              SetFilepath(PV_OUTPUT), Render(1) >>

(***************************************************************************)
(* vignelli_study: the four grid scripts                                   *)
(***************************************************************************)
V1_COLS == 12
V1_ROWS == 12
V2_COLS == 12
V2_ROWS == 12
V3_COLS == 12
V3_ROWS == 12
V4_COLS == 16
V4_ROWS == 16

\* MODULE_SIZE and MODULE_SIZE + GUTTER
V1_MODULE_SIZE == M(1000)
V1_PITCH == M(1000) + M(100)
V4_MODULE_SIZE == M(600)
V4_PITCH == M(600) + M(150)

FIB == <<1, 2, 3, 5, 8, 13>>
V4_FIB == <<1, 2, 3, 5, 8, 13, 21>>

GridScripts == {"vignelli_v1", "vignelli_v2", "vignelli_v3", "vignelli_v4"}

COLS(s) ==
    CASE s = "vignelli_v1" -> V1_COLS [] s = "vignelli_v2" -> V2_COLS
      [] s = "vignelli_v3" -> V3_COLS [] s = "vignelli_v4" -> V4_COLS
ROWS(s) ==
    CASE s = "vignelli_v1" -> V1_ROWS [] s = "vignelli_v2" -> V2_ROWS
      [] s = "vignelli_v3" -> V3_ROWS [] s = "vignelli_v4" -> V4_ROWS
\* per loop body ("v1".."v4"): MODULE_SIZE + GUTTER and MODULE_SIZE
Pitch(calc) == IF calc = "v4" THEN V4_PITCH ELSE V1_PITCH
ModuleSize(calc) == IF calc = "v4" THEN V4_MODULE_SIZE ELSE V1_MODULE_SIZE

\* the cube of grid cell (c, r); location, scale and material are worked
\* out when the statement executes
Block(calc, c, r) ==
    [Stmt("primitive_add") EXCEPT !.kind = "cube", !.name = "Cube", !.var = "block",
                                  !.calc = calc, !.c = c, !.r = r]

\* an inner loop that stops one row short
GridLoop_ShortRows(calc, cols, rows) ==
    [j \in 1..(cols * (rows - 1)) |-> Block(calc, (j - 1) \div (rows - 1), (j - 1) % (rows - 1))]

\* for c in range(cols): for r in range(rows): one statement per cell
GridLoop(calc, cols, rows) ==
    [j \in 1..(cols * rows) |-> Block(calc, (j - 1) \div rows, (j - 1) % rows)]

\* a v2 that kept the output path of the script it was copied from
V2_OUTPUT_SameAsV1 == "/data/.openclaw/workspace/art/renders/2026-02-15/vignelli_visual_score_01.png"

V1_OUTPUT == "/data/.openclaw/workspace/art/renders/2026-02-15/vignelli_visual_score_01.png"
V2_OUTPUT == "/data/.openclaw/workspace/art/renders/2026-02-15/vignelli_visual_score_v2.png"
V3_OUTPUT == "/data/.openclaw/workspace/art/renders/2026-02-16/vignelli_visual_score_v3.png"
V4_OUTPUT == "/data/.openclaw/workspace/art/renders/2026-02-17/vignelli_visual_score_v4.png"

StmtsV1 ==
    << SelectAll("SELECT"), Delete,
       MaterialNew("unguarded", "VignelliRed", ""),
       MaterialNew("unguarded", "ArchitecturalWhite", "") >>
    \o GridLoop("v1", V1_COLS, V1_ROWS)
    \o << Primitive("plane", "Plane", "ground", <<0, 0, 0>>,
              <<M(100000), M(100000), 0>>, "ArchitecturalWhite"),
          LightAdd("SUN", <<M(10000), M(-10000), M(20000)>>),
          CameraAdd("ORTHO", "Camera", "cam",
              <<V1_COLS * M(2000), -V1_COLS * M(1000), V1_COLS * M(1500)>>),
          SetCamera("cam"), SetFilepath(V1_OUTPUT), SetResolution(1200, 1200),
          Render(1) >>

\* v2 with the white material created only when the ground needs it
StmtsV2_LateMaterial ==
    << SelectAll("SELECT"), Delete,
       MaterialNew("unguarded", "VignelliRed", ""),
       Primitive("plane", "Plane", "ground", <<0, 0, 0>>,
           <<M(100000), M(100000), 0>>, ""),
       MaterialNew("unguarded", "ArchitecturalWhite", "ground"),
       LightAdd("SUN", <<M(15000), M(-10000), M(25000)>>),
       CameraAdd("PERSP", "Camera", "cam",
           <<V2_COLS * M(2500), -V2_COLS * M(1500), V2_COLS * M(2000)>>),
       SetCamera("cam"), SetFilepath(V2_OUTPUT), SetResolution(1600, 1600),
       SetEngine, Render(1) >>

StmtsV2 ==
    << SelectAll("SELECT"), Delete,
       MaterialNew("unguarded", "VignelliRed", ""),
       MaterialNew("unguarded", "ArchitecturalWhite", "") >>
    \o GridLoop("v2", V2_COLS, V2_ROWS)
    \o << Primitive("plane", "Plane", "ground", <<0, 0, 0>>,
              <<M(100000), M(100000), 0>>, "ArchitecturalWhite"),
          LightAdd("SUN", <<M(15000), M(-10000), M(25000)>>),
          CameraAdd("PERSP", "Camera", "cam",
              <<V2_COLS * M(2500), -V2_COLS * M(1500), V2_COLS * M(2000)>>),
          SetCamera("cam"), SetFilepath(V2_OUTPUT), SetResolution(1600, 1600),
          SetEngine, Render(1) >>

StmtsV3 ==
    << SelectAll("SELECT"), Delete >>
    \o [i \in 1..7 |-> MaterialNew("unguarded", "Temp_" \o ToString(i - 1), "")]
    \o GridLoop("v3", V3_COLS, V3_ROWS)
    \o << Primitive("plane", "Plane", "ground", <<0, 0, 0>>,
              <<M(100000), M(100000), 0>>, ""),
          MaterialNew("unguarded", "Ground", "ground"),
          LightAdd("SUN", <<M(15000), M(-10000), M(25000)>>),
          LightAdd("AREA", <<M(-12000), M(12000), M(18000)>>),
          CameraAdd("PERSP", "Camera", "cam",
              <<V3_COLS * M(2500), -V3_COLS * M(1500), V3_COLS * M(2000)>>),
          SetCamera("cam"), SetFilepath(V3_OUTPUT), SetResolution(1600, 1600),
          SetEngine, Render(1) >>

\* the two host calls of one v4 loop iteration: the cube, then its material
V4_cell(j) ==
    LET c == (j - 1) \div V4_ROWS
        r == (j - 1) % V4_ROWS
    IN  << Block("v4", c, r),
           [MaterialNew("unguarded", "Block_" \o ToString(c) \o "_" \o ToString(r), "block")
                EXCEPT !.calc = "v4mat", !.c = c, !.r = r] >>

\* objects_for_metaball[:12]
V4_ELEMENT_LIMIT == 12

\* a v4 that never seeds its generator
V4_prologue_Unseeded == << SelectAll("SELECT"), Delete >>

\* the clear and random.seed(42)
V4_prologue == << SelectAll("SELECT"), Delete, Stmt("seed") >>

StmtsV4 ==
    V4_prologue
    \o [i \in 1..(2 * V4_COLS * V4_ROWS) |-> V4_cell((i + 1) \div 2)[2 - (i % 2)]]
    \o << [Primitive("metaball", "Emergence_Blob", "meta_obj", <<0, 0, 0>>,
                     <<M(500), M(500), M(500)>>, "") EXCEPT !.guard = "if_metaball"],
          [MaterialNew("custom", "Emergence_Material", "meta_obj")
               EXCEPT !.guard = "if_metaball"] >>
    \o [k \in 1..V4_ELEMENT_LIMIT |->
          [Stmt("element_new") EXCEPT !.calc = "v4elem", !.k = k, !.guard = "element",
                                      !.target = "meta_obj"]]
    \o << Primitive("plane", "Plane", "ground", <<0, 0, 0>>,
              <<M(100000), M(100000), 0>>, ""),
          MaterialNew("unguarded", "System_Ground", "ground"),
          LightAdd("SUN", <<M(10000), M(-8000), M(20000)>>),
          LightAdd("AREA", <<M(-10000), M(15000), M(8000)>>),
          LightAdd("AREA", <<M(8000), M(8000), M(12000)>>),
          \* cos(35 deg) * 22 and -sin(35 deg) * 22, rounded to thousandths
          CameraAdd("PERSP", "Camera", "cam", <<M(18021), M(-12619), M(14000)>>),
          SetCamera("cam"), SetFilepath(V4_OUTPUT), SetResolution(1800, 1800),
          SetEngine, Render(1) >>

Scripts ==
    {"create_art", "palladian_villa", "villa_rotonda"} \cup GridScripts

Stmts(s) ==
    CASE s = "create_art" -> StmtsCreateArt
      [] s = "palladian_villa" -> StmtsPalladianVilla
      [] s = "villa_rotonda" -> StmtsVillaRotonda
      [] s = "vignelli_v1" -> StmtsV1
      [] s = "vignelli_v2" -> StmtsV2
      [] s = "vignelli_v3" -> StmtsV3
      [] s = "vignelli_v4" -> StmtsV4

\* scripts that run `import random`
ImportsRandom == {"create_art", "vignelli_v1", "vignelli_v4"}

(***************************************************************************)
(* The loop bodies of the grid scripts.                                    *)
(***************************************************************************)
\* v1: is_beat, two or three draws from the generator g
V1_block(c, r, g) ==
    LET is_beat == (c % 3 = 0) \/ (r % 4 = 0)
        g1 == NextRng(g)
        low == M(100) + 28 * RandUnit(g)           \* random.uniform(0.1, 0.5)
        g2 == IF is_beat THEN NextRng(g1) ELSE g1
        high == M(2000) + 140 * RandUnit(g1)       \* random.uniform(2.0, 4.0)
        g3 == IF is_beat THEN NextRng(g2) ELSE g2
        red == is_beat /\ RandUnit(g2) > 30        \* random.random() > 0.3
    IN  [height |-> IF is_beat THEN high ELSE low,
         mat |-> IF red THEN "VignelliRed" ELSE "ArchitecturalWhite",
         rng |-> g3]

V2_height(c, r) ==
    LET is_harmonic_x == (c % 3 = 0)
        is_harmonic_y == (r % 4 = 0)
        fib_index == (c + r) % Len(FIB)
    IN  IF is_harmonic_x \/ is_harmonic_y THEN FIB[fib_index + 1] * M(250) ELSE M(100)

V2_material(c, r) ==
    IF (c % 3 = 0) /\ (r % 4 = 0) THEN "VignelliRed" ELSE "ArchitecturalWhite"

\* a v3 that kept the heights of v2 (one factor for every harmonic cell)
V3_height_AsV2(c, r) == V2_height(c, r)

V3_height(c, r) ==
    LET is_harmonic_x == (c % 3 = 0)
        is_harmonic_y == (r % 4 = 0)
        fib_index == (c + r) % Len(FIB)
    IN  IF is_harmonic_x /\ is_harmonic_y THEN FIB[fib_index + 1] * M(350)
        ELSE IF is_harmonic_x \/ is_harmonic_y THEN FIB[fib_index + 1] * M(200)
        ELSE M(100)

\* int((1 - dist / max_dist) * 6) clamped to 0..6, in exact arithmetic on
\* tenths: the largest k with 6 * dist <= (6 - k) * max_dist.  (A cell that
\* lies exactly on a stop boundary is decided by binary rounding in the
\* script and may come out one stop lower there.)
V3_mat_index(c, r) ==
    LET d2 == (11 * c - 66) * (11 * c - 66) + (11 * r - 66) * (11 * r - 66)
        D2 == 2 * 66 * 66
        ks == {k \in 0..6 : 36 * d2 <= (6 - k) * (6 - k) * D2}
    IN  CHOOSE k \in ks : \A j \in ks : j <= k

\* calculate_emergence at the cell's position, in thousandths: the values
\* of min(1, max(0, max_i exp(-dist_i^2 / 8) + noise)) for x = 0.75 c,
\* y = 0.75 r, row c, column r
V4_EMERGENCE ==
    << <<50, 45, 31, 11, 0, 0, 0, 0, 0, 0, 0, 35, 76, 117, 152, 171>>,
       <<75, 70, 56, 36, 14, 0, 0, 0, 0, 3, 36, 83, 143, 212, 277, 319>>,
       <<93, 89, 75, 55, 34, 15, 2, 0, 4, 27, 69, 134, 224, 332, 439, 515>>,
       <<100, 96, 82, 64, 44, 27, 17, 15, 21, 41, 94, 179, 303, 458, 615, 730>>,
       <<94, 90, 78, 62, 46, 35, 31, 34, 42, 53, 103, 207, 361, 557, 759, 910>>,
       <<76, 73, 64, 54, 47, 49, 58, 72, 84, 91, 93, 208, 379, 597, 824, 994>>,
       <<52, 51, 48, 48, 58, 83, 118, 151, 171, 170, 152, 178, 346, 560, 781, 948>>,
       <<29, 32, 37, 53, 89, 150, 223, 287, 318, 306, 257, 193, 273, 457, 645, 786>>,
       <<13, 21, 36, 72, 142, 247, 369, 472, 518, 491, 404, 290, 185, 324, 464, 566>>,
       <<9, 21, 47, 103, 206, 355, 526, 667, 728, 686, 560, 399, 249, 202, 293, 357>>,
       <<18, 33, 65, 135, 260, 440, 643, 810, 881, 830, 678, 484, 303, 170, 170, 203>>,
       <<37, 52, 86, 158, 286, 471, 679, 851, 923, 870, 714, 514, 330, 192, 193, 162>>,
       <<61, 74, 102, 164, 276, 438, 622, 773, 838, 793, 656, 481, 319, 368, 365, 313>>,
       <<83, 93, 111, 154, 236, 357, 495, 611, 663, 631, 530, 400, 526, 598, 591, 507>>,
       <<99, 103, 111, 134, 181, 256, 344, 421, 457, 440, 379, 570, 742, 838, 825, 709>>,
       <<103, 104, 102, 107, 125, 160, 206, 249, 272, 268, 466, 697, 904, 1000, 1000, 861>> >>

calculate_emergence(c, r) == V4_EMERGENCE[c + 1][r + 1]

\* v4: the height of cell (c, r); emergent cells draw from the generator g
V4_block(c, r, g) ==
    LET emergence == calculate_emergence(c, r)
        is_grid_line_x == (c % 4 = 0)
        is_grid_line_y == (r % 4 = 0)
        fib_index == (c + r) % Len(V4_FIB)
    IN  IF emergence > 600
        THEN [height |-> M(2000) + 21 * emergence + 70 * RandUnit(g), rng |-> NextRng(g)]
        ELSE IF is_grid_line_x /\ is_grid_line_y
        THEN [height |-> V4_FIB[fib_index + 1] * M(300), rng |-> g]
        ELSE [height |-> M(200) + (7 * emergence) \div 2, rng |-> g]

\* the tuple appended to objects_for_metaball when emergence > 0.7
V4_track(ofm, c, r, height) ==
    LET emergence == calculate_emergence(c, r)
    IN  IF emergence > 700
        THEN Append(ofm, <<c * V4_PITCH, r * V4_PITCH, height + M(500), emergence>>)
        ELSE ofm

\* the seed v4 gives the generator
V4_SEED == 42

(***************************************************************************)
(* Executing statement st with generator state g and Python variables v:   *)
(* the host call it issues, and the Python state after it.                 *)
(***************************************************************************)
AsBlock(st, h, m) ==
    [st EXCEPT !.loc = <<st.c * Pitch(st.calc), st.r * Pitch(st.calc), h \div 2>>,
               !.dims = <<ModuleSize(st.calc), ModuleSize(st.calc), h>>,
               !.mat = m]

ExecV1(st, b, v) ==
    [call |-> AsBlock(st, b.height, b.mat), rng |-> b.rng, height |-> b.height, ofm |-> v.ofm]

ExecV4(st, b, v) ==
    [call |-> AsBlock(st, b.height, ""), rng |-> b.rng, height |-> b.height, ofm |-> v.ofm]

ExecV4Element(st, t, g, v) ==
    [call |-> [st EXCEPT !.loc = <<t[1], t[2], t[3] + 35 * RandUnit(g)>>,   \* z + uniform(0, 0.5)
                         !.dims = <<M(400) + (42 * t[4]) \div 10,           \* 0.4 + strength * 0.6
                                    M(400) + (42 * t[4]) \div 10,
                                    M(400) + (42 * t[4]) \div 10>>],
     rng |-> NextRng(g), height |-> v.height, ofm |-> v.ofm]

Exec(st, g, v) ==
    CASE st.calc = "v1" -> ExecV1(st, V1_block(st.c, st.r, g), v)
      [] st.calc = "v2" ->
           [call |-> AsBlock(st, V2_height(st.c, st.r), V2_material(st.c, st.r)),
            rng |-> g, height |-> V2_height(st.c, st.r), ofm |-> v.ofm]
      [] st.calc = "v3" ->
           [call |-> AsBlock(st, V3_height(st.c, st.r),
                             "Temp_" \o ToString(V3_mat_index(st.c, st.r))),
            rng |-> g, height |-> V3_height(st.c, st.r), ofm |-> v.ofm]
      [] st.calc = "v4" -> ExecV4(st, V4_block(st.c, st.r, g), v)
      [] st.calc = "v4mat" ->
           [call |-> st, rng |-> g, height |-> v.height,
            ofm |-> V4_track(v.ofm, st.c, st.r, v.height)]
      [] st.calc = "v4elem" -> ExecV4Element(st, v.ofm[st.k], g, v)
      [] st.op = "seed" ->
           [call |-> st, rng |-> SeedRng(V4_SEED), height |-> v.height, ofm |-> v.ofm]
      [] OTHER ->
           [call |-> st, rng |-> g, height |-> v.height, ofm |-> v.ofm]

\* is statement st reached: `if objects_for_metaball:` and the loop over
\* objects_for_metaball[:12]
GuardOK(st, ofm) ==
    CASE st.guard = "if_metaball" -> ofm # << >>
      [] st.guard = "element" -> ofm # << >> /\ st.k <= Min(V4_ELEMENT_LIMIT, Len(ofm))
      [] OTHER -> TRUE

\* the statement of prog executed after statement p (Len + 1: the end)
NextPc(prog, p, ofm) ==
    IF \E q \in (p + 1)..Len(prog) : GuardOK(prog[q], ofm)
    THEN CHOOSE q \in (p + 1)..Len(prog) :
             /\ GuardOK(prog[q], ofm)
             /\ \A j \in (p + 1)..(q - 1) : ~GuardOK(prog[j], ofm)
    ELSE Len(prog) + 1

\* one step of the interpreter on prog: the call issued, the Python state
\* after it, the statement that follows
Fetched(prog, p, e) ==
    [call |-> e.call, rng |-> e.rng, height |-> e.height, ofm |-> e.ofm,
     next |-> NextPc(prog, p, e.ofm), len |-> Len(prog)]

Fetch(prog, p, g, v) == Fetched(prog, p, Exec(prog[p], g, v))

(***************************************************************************)
(* The host session.                                                       *)
(***************************************************************************)
PyVars ==
    {"meta_obj", "ground", "block", "camera", "cam",
     "persp_cam", "plan_cam", "section_cam", "front_cam"}

\* a fresh module namespace
FreshPy == [height |-> 0, ofm |-> << >>, bind |-> [n \in PyVars |-> 0]]

Obj(id, r, type, call, mat) ==
    [id |-> id, run |-> r, type |-> type, kind |-> call.kind, name |-> call.name,
     loc |-> call.loc, dims |-> call.dims, mat |-> mat, elems |-> << >>, track |-> 0]

NoCall == Stmt("none")

IdleTwin ==
    [script |-> "", status |-> "idle", pcA |-> 0, pcB |-> 0, rngA |-> -1, rngB |-> -1,
     pyA |-> FreshPy, pyB |-> FreshPy, callA |-> NoCall, callB |-> NoCall]

\* the host's startup scene: a cube with its material, a light, a camera
Init ==
    /\ objects =
         { Obj(1, 0, "MESH", [NoCall EXCEPT !.kind = "cube", !.name = "Cube",
                                     !.dims = <<Scale, Scale, Scale>>], 4),
           Obj(2, 0, "LIGHT", [NoCall EXCEPT !.kind = "POINT", !.name = "Light"], 0),
           Obj(3, 0, "CAMERA", [NoCall EXCEPT !.kind = "PERSP", !.name = "Camera"], 0) }
    /\ materials = { [id |-> 4, run |-> 0, name |-> "Material", configured |-> TRUE] }
    /\ selection = {}
    /\ active = 0
    /\ scene = [camera |-> 3, filepath |-> "/tmp/", res |-> <<1920, 1080>>,
                engine |-> "BLENDER_EEVEE"]
    /\ renders = << >>
    /\ principled \in BOOLEAN
    /\ nextId = 5
    /\ run = 0
    /\ script = ""
    /\ status = "idle"
    /\ pc = 0
    /\ rng = -1
    /\ py = FreshPy
    /\ lastCall = NoCall
    /\ twin = IdleTwin

\* the step the running script takes next (none when no script is running)
Step == IF status = "running" THEN {Fetch(Stmts(script), pc, rng, py)} ELSE {}

\* random.seed is a call into Python's library, every other statement a
\* call into the host
IsHostCall(call) == call.op # "seed"

\* the script moves past the statement it has just executed
Advance(e, bind) ==
    /\ pc' = e.next
    /\ status' = IF e.next > e.len THEN "done" ELSE "running"
    /\ rng' = e.rng
    /\ py' = [height |-> e.height, ofm |-> e.ofm, bind |-> bind]
    /\ lastCall' = IF IsHostCall(e.call) THEN e.call ELSE lastCall
    /\ UNCHANGED <<run, script, principled, twin>>

\* the material of the running script that the Python variable names
MatId(name) ==
    IF name = "" THEN 0
    ELSE (CHOOSE m \in materials : m.run = run /\ m.name = name).id

Bound(bind, var, id) == IF var = "" THEN bind ELSE [bind EXCEPT ![var] = id]

\* the user runs script s in the session; the first `import random` of the
\* process seeds the generator from system entropy
Launch(s) ==
    /\ status \in {"idle", "done", "error"}
    /\ run < MaxRuns
    /\ run' = run + 1
    /\ script' = s
    /\ status' = "running"
    /\ pc' = 1
    /\ py' = FreshPy
    /\ lastCall' = NoCall
    /\ \E seed \in 0..(NumSeeds - 1) :
         rng' = IF s \in ImportsRandom /\ rng = -1 THEN SeedRng(seed) ELSE rng
    /\ UNCHANGED <<objects, materials, selection, active, scene, renders,
                   principled, nextId, twin>>

\* bpy.ops.object.select_all(action=...)
DoSelectAll ==
    \E e \in Step :
    /\ e.call.op = "select_all"
    /\ selection' = IF e.call.kind = "SELECT" THEN {o.id : o \in objects} ELSE {}
    /\ Advance(e, py.bind)
    /\ UNCHANGED <<objects, materials, active, scene, renders, nextId>>

\* what bpy.ops.object.delete leaves in bpy.data.objects
Deleted(objs, sel) == {o \in objs : o.id \notin sel}

\* a delete that also purged the materials of the objects it removed
MaterialsAfterDelete_Purge(mats, objs, sel) ==
    {m \in mats : \A o \in objs : o.id \in sel => o.mat # m.id}

\* what it leaves in bpy.data.materials: every material (the operator
\* removes objects, not the datablocks they used)
MaterialsAfterDelete(mats, objs, sel) == mats

\* bpy.ops.object.delete(use_global=False)
DoDelete ==
    \E e \in Step :
    /\ e.call.op = "delete"
    /\ objects' = Deleted(objects, selection)
    /\ materials' = MaterialsAfterDelete(materials, objects, selection)
    /\ selection' = {}
    /\ active' = IF active \in selection THEN 0 ELSE active
    /\ scene' = IF scene.camera \in selection THEN [scene EXCEPT !.camera = 0] ELSE scene
    /\ Advance(e, py.bind)
    /\ UNCHANGED <<renders, nextId>>

\* for obj in bpy.data.objects: if obj.type in ('LIGHT', 'CAMERA'): remove
DoRemoveLightsCameras ==
    \E e \in Step :
    /\ e.call.op = "remove_lights_cameras"
    /\ \E gone \in {{o.id : o \in {x \in objects : x.type \in {"LIGHT", "CAMERA"}}}} :
           /\ objects' = Deleted(objects, gone)
           /\ selection' = selection \ gone
           /\ active' = IF active \in gone THEN 0 ELSE active
           /\ scene' = IF scene.camera \in gone THEN [scene EXCEPT !.camera = 0] ELSE scene
    /\ Advance(e, py.bind)
    /\ UNCHANGED <<materials, renders, nextId>>

\* random.seed(42)
DoSeed ==
    \E e \in Step :
    /\ e.call.op = "seed"
    /\ Advance(e, py.bind)
    /\ UNCHANGED <<objects, materials, selection, active, scene, renders, nextId>>

\* every helper testing `if bsdf:` before it uses the node
SurvivesLookup_AllGuarded(kind, found) == TRUE

\* does the script go on after nodes.get("Principled BSDF") gave `found`:
\* the guarded helpers test `if bsdf:`, the unguarded ones use bsdf.inputs
\* at once, the custom graphs build their own node
SurvivesLookup(kind, found) ==
    CASE kind = "guarded" -> TRUE
      [] kind = "custom" -> TRUE
      [] kind = "unguarded" -> found

NewMaterial(call) ==
    [id |-> nextId, run |-> run, name |-> call.name,
     configured |-> (call.kind = "custom" \/ principled)]

\* bpy.data.materials.new, the node lookup and configuration, and the
\* append to the target's material slots
DoMaterialNew ==
    \E e \in Step :
    /\ e.call.op = "material_new"
    /\ materials' = materials \cup {NewMaterial(e.call)}
    /\ nextId' = nextId + 1
    /\ IF SurvivesLookup(e.call.kind, principled)
       THEN /\ objects' = {IF e.call.target # "" /\ o.id = py.bind[e.call.target]
                           THEN [o EXCEPT !.mat = nextId] ELSE o : o \in objects}
            /\ Advance(e, py.bind)
       ELSE /\ status' = "error"
            /\ lastCall' = e.call
            /\ UNCHANGED <<objects, pc, rng, py, run, script, principled, twin>>
    /\ UNCHANGED <<selection, active, scene, renders>>

\* bpy.ops.mesh.primitive_*_add / bpy.ops.object.metaball_add, with the
\* name, scale and material slot written to the new active object
DoPrimitiveAdd ==
    \E e \in Step :
    /\ e.call.op = "primitive_add"
    /\ objects' = objects \cup
         {Obj(nextId, run, IF e.call.kind = "metaball" THEN "META" ELSE "MESH",
              e.call, MatId(e.call.mat))}
    /\ selection' = {nextId}
    /\ active' = nextId
    /\ nextId' = nextId + 1
    /\ Advance(e, Bound(py.bind, e.call.var, nextId))
    /\ UNCHANGED <<materials, scene, renders>>

\* meta_data.elements.new() with its co and radius
DoElementNew ==
    \E e \in Step :
    /\ e.call.op = "element_new"
    /\ objects' = {IF o.id = py.bind[e.call.target]
                   THEN [o EXCEPT !.elems = Append(@, <<e.call.loc, e.call.dims[1]>>)]
                   ELSE o : o \in objects}
    /\ Advance(e, py.bind)
    /\ UNCHANGED <<materials, selection, active, scene, renders, nextId>>

\* bpy.ops.object.light_add
DoLightAdd ==
    \E e \in Step :
    /\ e.call.op = "light_add"
    /\ objects' = objects \cup {Obj(nextId, run, "LIGHT", e.call, 0)}
    /\ selection' = {nextId}
    /\ active' = nextId
    /\ nextId' = nextId + 1
    /\ Advance(e, py.bind)
    /\ UNCHANGED <<materials, scene, renders>>

\* bpy.ops.object.camera_add, with name and data.type
DoCameraAdd ==
    \E e \in Step :
    /\ e.call.op = "camera_add"
    /\ objects' = objects \cup {Obj(nextId, run, "CAMERA", e.call, 0)}
    /\ selection' = {nextId}
    /\ active' = nextId
    /\ nextId' = nextId + 1
    /\ Advance(e, Bound(py.bind, e.call.var, nextId))
    /\ UNCHANGED <<materials, scene, renders>>

\* camera.select_set(True); view_layer.objects.active = camera
DoSelectSet ==
    \E e \in Step :
    /\ e.call.op = "select_set"
    /\ selection' = selection \cup {py.bind[e.call.var]}
    /\ active' = py.bind[e.call.var]
    /\ Advance(e, py.bind)
    /\ UNCHANGED <<objects, materials, scene, renders, nextId>>

\* bpy.ops.object.constraint_add(type='TRACK_TO') and its target
DoConstraintAdd ==
    \E e \in Step :
    /\ e.call.op = "constraint_add"
    /\ objects' = {IF o.id = active THEN [o EXCEPT !.track = py.bind[e.call.target]] ELSE o
                   : o \in objects}
    /\ Advance(e, py.bind)
    /\ UNCHANGED <<materials, selection, active, scene, renders, nextId>>

\* scene.camera = <camera variable>
DoSetCamera ==
    \E e \in Step :
    /\ e.call.op = "set_camera"
    /\ scene' = [scene EXCEPT !.camera = py.bind[e.call.var]]
    /\ Advance(e, py.bind)
    /\ UNCHANGED <<objects, materials, selection, active, renders, nextId>>

\* scene.render.engine = 'CYCLES' with device, samples, file format
DoSetEngine ==
    \E e \in Step :
    /\ e.call.op = "set_engine"
    /\ scene' = [scene EXCEPT !.engine = "CYCLES"]
    /\ Advance(e, py.bind)
    /\ UNCHANGED <<objects, materials, selection, active, renders, nextId>>

\* scene.render.resolution_x, resolution_y
DoSetResolution ==
    \E e \in Step :
    /\ e.call.op = "set_resolution"
    /\ scene' = [scene EXCEPT !.res = e.call.res]
    /\ Advance(e, py.bind)
    /\ UNCHANGED <<objects, materials, selection, active, renders, nextId>>

\* scene.render.filepath
DoSetFilepath ==
    \E e \in Step :
    /\ e.call.op = "set_filepath"
    /\ scene' = [scene EXCEPT !.filepath = e.call.path]
    /\ Advance(e, py.bind)
    /\ UNCHANGED <<objects, materials, selection, active, renders, nextId>>

\* the record of one image written
Image(call) ==
    [run |-> run, script |-> script, site |-> call.site, camera |-> scene.camera,
     path |-> scene.filepath, res |-> scene.res]

\* bpy.ops.render.render(write_still=True): the image of the scene camera's
\* view is written to scene.render.filepath
DoRender ==
    \E e \in Step :
    /\ e.call.op = "render"
    /\ renders' = Append(renders, Image(e.call))
    /\ Advance(e, py.bind)
    /\ UNCHANGED <<objects, materials, selection, active, scene, nextId>>

Next ==
    \/ \E s \in Scripts : Launch(s)
    \/ DoSelectAll
    \/ DoDelete
    \/ DoRemoveLightsCameras
    \/ DoSeed
    \/ DoMaterialNew
    \/ DoPrimitiveAdd
    \/ DoElementNew
    \/ DoLightAdd
    \/ DoCameraAdd
    \/ DoSelectSet
    \/ DoConstraintAdd
    \/ DoSetCamera
    \/ DoSetEngine
    \/ DoSetResolution
    \/ DoSetFilepath
    \/ DoRender

Spec == Init /\ [][Next]_vars

\* the statements a script executes, to completion once launched
Run ==
    \/ DoSelectAll \/ DoDelete \/ DoRemoveLightsCameras \/ DoSeed \/ DoMaterialNew
    \/ DoPrimitiveAdd \/ DoElementNew \/ DoLightAdd \/ DoCameraAdd \/ DoSelectSet
    \/ DoConstraintAdd \/ DoSetCamera \/ DoSetEngine \/ DoSetResolution
    \/ DoSetFilepath \/ DoRender

\* the interpreter is single-threaded and every host call returns: a
\* launched script keeps executing until it ends or raises
FairSpec == Init /\ [][Next]_vars /\ WF_vars(Run)

(***************************************************************************)
(* Two executions of one grid script, side by side, each in its own        *)
(* Python process on a host in the same state: the calls they issue.       *)
(***************************************************************************)
TwinLaunch(s) ==
    /\ twin.status \in {"idle", "done", "error"}
    /\ \E seedA \in 0..(NumSeeds - 1), seedB \in 0..(NumSeeds - 1) :
         twin' = [IdleTwin EXCEPT
                    !.script = s, !.status = "running", !.pcA = 1, !.pcB = 1,
                    !.rngA = IF s \in ImportsRandom THEN SeedRng(seedA) ELSE -1,
                    !.rngB = IF s \in ImportsRandom THEN SeedRng(seedB) ELSE -1]
    /\ UNCHANGED hostVars

TwinAdvance(a, b) ==
    twin' = [twin EXCEPT
               !.callA = IF IsHostCall(a.call) THEN a.call ELSE @,
               !.callB = IF IsHostCall(b.call) THEN b.call ELSE @,
               !.rngA = a.rng, !.rngB = b.rng,
               !.pyA = [@ EXCEPT !.height = a.height, !.ofm = a.ofm],
               !.pyB = [@ EXCEPT !.height = b.height, !.ofm = b.ofm],
               !.pcA = a.next, !.pcB = b.next,
               !.status = IF a.next > a.len \/ b.next > b.len THEN "done" ELSE "running"]

TwinHalt(a, b) ==
    twin' = [twin EXCEPT !.callA = a.call, !.callB = b.call, !.status = "error"]

TwinStep ==
    /\ twin.status = "running"
    /\ \E a \in {Fetch(Stmts(twin.script), twin.pcA, twin.rngA, twin.pyA)},
          b \in {Fetch(Stmts(twin.script), twin.pcB, twin.rngB, twin.pyB)} :
         IF a.call.op = "material_new" /\ ~SurvivesLookup(a.call.kind, principled)
         THEN TwinHalt(a, b)
         ELSE TwinAdvance(a, b)
    /\ UNCHANGED hostVars

TwinNext ==
    \/ \E s \in GridScripts : TwinLaunch(s)
    \/ TwinStep

TwinSpec == Init /\ [][TwinNext]_vars

(***************************************************************************)
(* Properties.                                                             *)
(***************************************************************************)
\* the phase of a host call: 1 scene clear, 2 material definition,
\* 3 geometry, 4 lights and camera, 5 renderer configuration and render
Phase(call) ==
    CASE call.op = "select_all" /\ call.kind = "SELECT" -> 1
      [] call.op \in {"delete", "remove_lights_cameras"} -> 1
      [] call.op = "material_new" -> 2
      [] call.op \in {"primitive_add", "element_new"} -> 3
      [] call.op \in {"light_add", "camera_add", "select_all", "select_set",
                      "constraint_add"} -> 4
      [] call.op \in {"set_camera", "set_engine", "set_resolution", "set_filepath",
                      "render"} -> 5
      [] OTHER -> 0

\* C1 as stated: in every script no call of an earlier phase follows a call
\* of a later phase.
C1_Original ==
    [][run' = run => Phase(lastCall') >= Phase(lastCall)]_vars

PhaseOrdered == {"palladian_villa", "villa_rotonda", "vignelli_v1", "vignelli_v2"}

\* C1, amended: palladian_villa, villa_rotonda, vignelli v1 and v2 issue
\* their host calls in the five-phase order; in all seven scripts the scene
\* clear comes before every other call and the renderer configuration and
\* render calls come after every material, geometry, light and camera call.
\* (create_art, v3 and v4 create materials after geometry, and create_art
\* creates geometry after its lights.)
C1_PhaseOrder ==
    [][run' = run =>
         /\ script \in PhaseOrdered => Phase(lastCall') >= Phase(lastCall)
         /\ Phase(lastCall) = 5 => Phase(lastCall') = 5
         /\ Phase(lastCall') = 1 => Phase(lastCall) <= 1]_vars

\* a phase-ordered script has gone through all five phases
C1_Witness ==
    /\ script = "vignelli_v2"
    /\ status = "done"
    /\ lastCall.op = "render"
    /\ \E m \in materials : m.run = run
    /\ \E o \in objects : o.run = run /\ o.type = "LIGHT"


\* the images the execution numbered r has written, in order
RendersOf(r) == SelectSeq(renders, LAMBDA i : i.run = r)

\* the number of render calls in a script's text
RenderCount(s) == IF s = "villa_rotonda" THEN 4 ELSE 1

\* C2 as stated: every script renders exactly once per execution and the
\* render is its last host call.
C2_Original ==
    /\ Len(RendersOf(run)) <= 1
    /\ status = "done" => Len(RendersOf(run)) = 1 /\ lastCall.op = "render"
    /\ lastCall.op = "render" => status = "done"

\* C2, amended: every script but villa_rotonda renders exactly once per
\* execution and villa_rotonda exactly four times; the last host call of a
\* completed execution is a render, and after the first render of an
\* execution the only calls that follow select the scene camera, set the
\* output path, or render again (no scene mutation).
C2_RenderLast ==
    /\ Len(RendersOf(run)) <= RenderCount(script)
    /\ status = "done" => Len(RendersOf(run)) = RenderCount(script) /\ lastCall.op = "render"
    /\ lastCall.op = "render" /\ Len(RendersOf(run)) = RenderCount(script) => status = "done"
    /\ Len(RendersOf(run)) >= 1 => lastCall.op \in {"render", "set_camera", "set_filepath"}

\* villa_rotonda has completed with its four images written
C2_Witness ==
    /\ script = "villa_rotonda"
    /\ status = "done"
    /\ Len(RendersOf(run)) = 4
    /\ lastCall.op = "render"

\* the running execution is past its scene clear (select_all + delete)
ClearDone == run >= 1 /\ pc >= 3

\* created by an execution before the current one
Earlier(x) == x.run >= 1 /\ x.run < run

\* C3 as stated: after a later script's clear step neither an object nor a
\* material created by an earlier script exists in the host's data.
C3_Original ==
    ClearDone => /\ \A o \in objects : ~Earlier(o)
                 /\ \A m \in materials : ~Earlier(m)

\* C3, amended: after a later script's clear step no object created by an
\* earlier script exists, but the materials do: the clear removes objects
\* only, no script ever removes a material, and a material of every
\* earlier execution is still in the host's data.
C3_ObjectsClearedMaterialsKept ==
    /\ [](ClearDone => /\ \A o \in objects : o.run = run
                       /\ \A k \in 1..(run - 1) : \E m \in materials : m.run = k)
    /\ [][materials \subseteq materials']_vars

\* a second script has cleared the scene and built its own objects while a
\* material of the first is still there
C3_Witness ==
    /\ run = 2
    /\ ClearDone
    /\ \E o \in objects : o.run = 2
    /\ \E m \in materials : m.run = 1

\* the scripts whose material helper uses the looked-up node unguarded
Unguarded == {"vignelli_v1", "vignelli_v2", "vignelli_v3", "vignelli_v4"}

\* a material of the running execution whose Principled BSDF lookup came
\* back empty
LookupFailed == \E m \in materials : m.run = run /\ ~m.configured

\* C4 as stated: once a new material lacks the node, every script has
\* halted with an error and has written no image.
C4_Original ==
    run >= 1 /\ LookupFailed => status = "error" /\ RendersOf(run) = << >>

\* C4, amended: when the node is missing, vignelli v1-v4 halt with an
\* uncaught error at the first material they create and write no image;
\* create_art, palladian_villa and villa_rotonda test the lookup (`if
\* bsdf:`), leave the material unconfigured, never halt, and go on to
\* render.
C4_MissingNode ==
    /\ script \in Unguarded /\ LookupFailed =>
          /\ status = "error"
          /\ RendersOf(run) = << >>
          /\ lastCall.op = "material_new"
          /\ Cardinality({m \in materials : m.run = run}) = 1
    /\ script \in Unguarded /\ ~principled /\ status = "done" => FALSE
    /\ script \notin Unguarded => status # "error"
    /\ script \in Scripts \ Unguarded /\ status = "done" =>
          Len(RendersOf(run)) = RenderCount(script)
    /\ status = "error" => ~principled

\* a grid script has halted at its first material
C4_Witness ==
    /\ script = "vignelli_v3"
    /\ ~principled
    /\ status = "error"
    /\ LookupFailed

\* a guarding script has rendered with an unconfigured material
C4_GuardedWitness ==
    /\ script = "palladian_villa"
    /\ ~principled
    /\ status = "done"
    /\ LookupFailed
    /\ RendersOf(run) # << >>

\* the output paths and resolutions written in the scripts' render sections
RenderPaths(s) ==
    CASE s = "create_art" -> {"/data/.openclaw/workspace/art/socrates_first_render.png"}
      [] s = "palladian_villa" -> {"/data/.openclaw/workspace/art/palladian_villa.png"}
      [] s = "villa_rotonda" ->
           {"/data/.openclaw/workspace/art/villa_rotonda_perspective.png",
            "/data/.openclaw/workspace/art/villa_rotonda_plan.png",
            "/data/.openclaw/workspace/art/villa_rotonda_section.png",
            "/data/.openclaw/workspace/art/villa_rotonda_elevation.png"}
      [] s = "vignelli_v1" ->
           {"/data/.openclaw/workspace/art/renders/2026-02-15/vignelli_visual_score_01.png"}
      [] s = "vignelli_v2" ->
           {"/data/.openclaw/workspace/art/renders/2026-02-15/vignelli_visual_score_v2.png"}
      [] s = "vignelli_v3" ->
           {"/data/.openclaw/workspace/art/renders/2026-02-16/vignelli_visual_score_v3.png"}
      [] s = "vignelli_v4" ->
           {"/data/.openclaw/workspace/art/renders/2026-02-17/vignelli_visual_score_v4.png"}
      [] OTHER -> {}

RenderResolution(s) ==
    CASE s = "create_art" -> <<800, 600>>
      [] s = "palladian_villa" -> <<1200, 900>>
      [] s = "villa_rotonda" -> <<1600, 1200>>
      [] s = "vignelli_v1" -> <<1200, 1200>>
      [] s = "vignelli_v2" -> <<1600, 1600>>
      [] s = "vignelli_v3" -> <<1600, 1600>>
      [] s = "vignelli_v4" -> <<1800, 1800>>
      [] OTHER -> <<0, 0>>

\* C5: at every render invocation the scene camera is a camera created by
\* the current execution and the output path and resolution are the
\* script's constants; render invocations at different places of the
\* repository never write to the same path.
C5_RenderConfigured ==
    /\ lastCall.op = "render" =>
          /\ \E o \in objects : o.id = scene.camera /\ o.type = "CAMERA" /\ o.run = run
          /\ scene.filepath \in RenderPaths(script)
          /\ scene.res = RenderResolution(script)
          /\ renders # << >>
          /\ renders[Len(renders)] =
                [run |-> run, script |-> script, site |-> lastCall.site,
                 camera |-> scene.camera, path |-> scene.filepath, res |-> scene.res]
    /\ \A i \in 1..Len(renders) :
          /\ renders[i].path \in RenderPaths(renders[i].script)
          /\ renders[i].res = RenderResolution(renders[i].script)
    /\ \A i, j \in 1..Len(renders) :
          <<renders[i].script, renders[i].site>> # <<renders[j].script, renders[j].site>>
             => renders[i].path # renders[j].path

\* the four images of villa_rotonda and the image of another script have
\* been written in one session
C5_Witness ==
    /\ Len(renders) = 5
    /\ lastCall.op = "render"
    /\ \E i \in 1..5 : renders[i].script = "villa_rotonda" /\ renders[i].site = 4
    /\ \E i \in 1..5 : renders[i].script = "vignelli_v2"

\* a host call with the height and the material of its block masked
Masked(call) ==
    [call EXCEPT !.loc = <<call.loc[1], call.loc[2], 0>>,
                 !.dims = <<call.dims[1], call.dims[2], 0>>,
                 !.mat = ""]

\* C6 as stated: two executions of a grid script started from the same host
\* state issue the same host calls with the same arguments.
C6_Original == twin.callA = twin.callB

\* C6, amended: vignelli v2, v3 and v4 are pure functions of the script:
\* two executions started from the same host state issue the identical
\* sequence of host calls with identical arguments (v2 and v3 draw no
\* random number, v4 seeds its generator with 42 before any draw).
\* vignelli v1 draws every block's height and material from a generator
\* it never seeds, so two executions issue the same sequence of calls with
\* the same cells and footprints but not the same heights and materials.
C6_Deterministic ==
    /\ twin.pcA = twin.pcB
    /\ twin.script \in {"vignelli_v2", "vignelli_v3", "vignelli_v4"} =>
          /\ twin.callA = twin.callB
          /\ twin.pyA = twin.pyB
    /\ twin.script = "vignelli_v1" => Masked(twin.callA) = Masked(twin.callB)
    /\ twin.script \in {"vignelli_v2", "vignelli_v3"} => twin.rngA = -1 /\ twin.rngB = -1

\* two executions of v4 have drawn random heights and element offsets and
\* reached the render
C6_Witness ==
    /\ twin.script = "vignelli_v4"
    /\ twin.status = "done"
    /\ twin.callA.op = "render"
    /\ twin.pyA.ofm # << >>
    /\ twin.rngA # SeedRng(V4_SEED)

\* the blocks of the grid the running script has built so far
Blocks == {o \in objects : o.run = run /\ o.kind = "cube"}

\* the height the v3 rule gives cell (c, r), in units of 1/Scale
C7_Height(c, r) ==
    LET fib == <<1, 2, 3, 5, 8, 13>>
        hx == (c % 3 = 0)
        hy == (r % 4 = 0)
        f == fib[((c + r) % 6) + 1]
    IN  CASE hx /\ hy -> (f * 35 * Scale) \div 100
          [] hx # hy -> (f * 2 * Scale) \div 10
          [] OTHER -> Scale \div 10

LoopDone ==
    /\ script \in GridScripts
    /\ status = "running"
    /\ Cardinality(Blocks) = COLS(script) * ROWS(script)

\* the grid cells that hold a block of the running grid script
Filled == {<<o.loc[1], o.loc[2]>> : o \in Blocks}

\* what holds of the loops in every state
C8_Counts ==
    /\ script \in GridScripts =>
          /\ COLS(script) * ROWS(script) =
                (IF script = "vignelli_v4" THEN 256 ELSE 144)
          /\ Cardinality(Blocks) <= COLS(script) * ROWS(script)
          /\ Filled \subseteq
                {<<c * Pitch(IF script = "vignelli_v4" THEN "v4" ELSE "v1"),
                   r * Pitch(IF script = "vignelli_v4" THEN "v4" ELSE "v1")>> :
                     c \in 0..(COLS(script) - 1), r \in 0..(ROWS(script) - 1)}
          /\ Cardinality(Filled) = Cardinality(Blocks)
          /\ status = "done" => Cardinality(Blocks) = COLS(script) * ROWS(script)
    /\ script \notin GridScripts => Cardinality({o \in objects : o.run = run}) <= 256
    /\ \A o \in objects : Len(o.elems) <= 12
    /\ status = "error" => ~principled

\* C8: every script terminates (it completes, or halts at the error of a
\* missing node); the double loop of a grid script that completes has run
\* exactly COLS*ROWS iterations and created exactly one block per cell (144
\* for v1-v3, 256 for v4); no loop of any script exceeds 256 iterations;
\* and a script that has finished its loops eventually reaches its render
\* call.
C8_Terminates ==
    /\ []C8_Counts
    /\ (status = "running") ~> (status \in {"done", "error"})
    /\ (status = "running" /\ principled) ~> (status = "done" /\ lastCall.op = "render")
    /\ LoopDone ~> (lastCall.op = "render")

\* v4 has completed with its 256 blocks and has rendered
C8_Witness ==
    /\ script = "vignelli_v4"
    /\ status = "done"
    /\ Cardinality(Blocks) = 256
    /\ lastCall.op = "render"
    /\ RendersOf(run) # << >>

\* the names create_portico gives the objects of the portico `suffix`
PorticoNames(suffix) ==
    {"PorticoRoof_" \o suffix}
    \cup {"Column_" \o suffix \o "_" \o ToString(i) : i \in 0..5}
    \cup {"Stairs_" \o suffix \o "_" \o ToString(i) : i \in 0..6}

\* what the execution has built of that portico: primitive, position,
\* dimensions
PorticoShapes(suffix) ==
    {<<o.kind, o.loc, o.dims>> : o \in {x \in objects : x.run = run /\ x.name \in PorticoNames(suffix)}}

\* a shape turned about the vertical axis by angle (the turn that takes
\* the north portico's place (0, d) to (d sin angle, d cos angle)); a
\* quarter turn swaps the X and Y footprint dimensions
Turned(shape, angle) ==
    LET loc == shape[2]
        dims == shape[3]
    IN  <<shape[1],
          <<(loc[1] * CosDeg(angle) + loc[2] * SinDeg(angle)) \div Scale,
            (loc[2] * CosDeg(angle) - loc[1] * SinDeg(angle)) \div Scale,
            loc[3]>>,
          IF angle \in {90, 270} THEN <<dims[2], dims[1], dims[3]>> ELSE dims>>

\* C9 as stated: the objects create_portico builds for 90, 180 and 270
\* degrees are the objects it builds for 0 degrees turned about the
\* vertical axis by that angle, the E and W roof and stair slabs with X and
\* Y footprint dimensions swapped.
C9_Original ==
    script = "villa_rotonda" /\ status = "done" =>
       \A p \in {<<90, "E">>, <<180, "S">>, <<270, "W">>} :
          PorticoShapes(p[2]) = {Turned(s, p[1]) : s \in PorticoShapes("N")}

\* the views of villa_rotonda in the order the claim gives them: the name
\* of the camera, the output path, whether the camera is orthographic
C10_Views ==
    << <<"PerspectiveCamera", "/data/.openclaw/workspace/art/villa_rotonda_perspective.png", FALSE>>,
       <<"PlanCamera", "/data/.openclaw/workspace/art/villa_rotonda_plan.png", TRUE>>,
       <<"SectionCamera", "/data/.openclaw/workspace/art/villa_rotonda_section.png", TRUE>>,
       <<"FrontElevationCamera", "/data/.openclaw/workspace/art/villa_rotonda_elevation.png", TRUE>> >>

\* C10: villa_rotonda renders perspective, plan, section, elevation in
\* that order; at each render the scene camera is the camera created for
\* that view and the output path is the one named for that view; the plan,
\* section and elevation cameras are orthographic when their render runs.
C10_RenderOrder ==
    script = "villa_rotonda" =>
       /\ Len(RendersOf(run)) <= 4
       /\ \A i \in 1..Len(RendersOf(run)) :
             /\ RendersOf(run)[i].site = i
             /\ RendersOf(run)[i].path = C10_Views[i][2]
             /\ \E o \in objects :
                   /\ o.id = RendersOf(run)[i].camera
                   /\ o.run = run
                   /\ o.type = "CAMERA"
                   /\ o.name = C10_Views[i][1]
                   /\ C10_Views[i][3] => o.kind = "ORTHO"
       /\ lastCall.op = "render" =>
             /\ RendersOf(run) # << >>
             /\ RendersOf(run)[Len(RendersOf(run))].camera = scene.camera
             /\ RendersOf(run)[Len(RendersOf(run))].path = scene.filepath

\* the third render of villa_rotonda has just been invoked, through the
\* orthographic section camera
C10_Witness ==
    /\ script = "villa_rotonda"
    /\ lastCall.op = "render"
    /\ Len(RendersOf(run)) = 3
    /\ \E o \in objects : o.id = scene.camera /\ o.name = "SectionCamera" /\ o.kind = "ORTHO"

(***************************************************************************)
(* The villas' geometry.                                                   *)
(***************************************************************************)
\* the faces of a box made by create_cube: primitive_cube_add(size=1) makes
\* a cube of edge 1 centred at `location`, and obj.scale = size multiplies
\* that edge, so the box reaches size/2 either side of its centre
CubeBottom(o) == o.loc[3] - o.dims[3] \div 2
CubeTop(o) == o.loc[3] + o.dims[3] \div 2

\* the object of the running execution with that name
Named(name) == CHOOSE o \in objects : o.run = run /\ o.name = name

\* the three stacked volumes of each villa and the declared height of the
\* lowest
Tiers(s) ==
    IF s = "palladian_villa" THEN <<"Base", "PianoNobile", "Attic">>
    ELSE <<"Basement", "MainBody", "Attic">>

BaseHeight(s) ==
    IF s = "palladian_villa" THEN PV_VILLA_HEIGHT_BASE ELSE VR_BASEMENT_HEIGHT

\* C11 as stated: in both villa scripts the basement box spans z from 0 to
\* its declared height and each higher tier's bottom face is at the top
\* face of the tier below.
C11_Original ==
    script \in {"palladian_villa", "villa_rotonda"} /\ status = "done" =>
       /\ CubeBottom(Named(Tiers(script)[1])) = 0
       /\ CubeTop(Named(Tiers(script)[1])) = BaseHeight(script)
       /\ CubeBottom(Named(Tiers(script)[2])) = CubeTop(Named(Tiers(script)[1]))
       /\ CubeBottom(Named(Tiers(script)[3])) = CubeTop(Named(Tiers(script)[2]))

\* the column objects of the palladian_villa front portico
PV_ColumnNames ==
    {"Column_F_" \o ToString(i) : i \in 0..2}
    \cup {"Column_F_" \o ToString(i) \o "_mir" : i \in 0..2}

PorticoColumns == {o \in objects : o.run = run /\ o.name \in PV_ColumnNames}

\* C12 as stated: the palladian_villa front portico has six columns at six
\* distinct positions, in three pairs mirrored across x = 0: for every
\* column at x exactly one column at -x, and no two columns at one position.
C12_Original ==
    script = "palladian_villa" /\ status = "done" =>
       /\ Cardinality(PorticoColumns) = 6
       /\ \A a, b \in PorticoColumns : a.loc = b.loc => a = b
       /\ \A a \in PorticoColumns :
             Cardinality({b \in PorticoColumns :
                             b # a /\ b.loc = <<-a.loc[1], a.loc[2], a.loc[3]>>}) = 1

\* C13 as stated: the plan of palladian_villa is in golden-ratio
\* proportion, VILLA_DEPTH : VILLA_WIDTH = 1 : 1.618 to three decimals
\* (1000 * VILLA_WIDTH = 1618 * VILLA_DEPTH), and so is the footprint of
\* the Base box built from the two.
C13_Original ==
    /\ 1000 * PV_VILLA_WIDTH = 1618 * PV_VILLA_DEPTH
    /\ script = "palladian_villa" /\ status = "done" =>
          1000 * Named("Base").dims[1] = 1618 * Named("Base").dims[2]

\* the tuples of objects_for_metaball whose cell received a metaball
\* element (an element sits at its cell's x and y)
Chosen ==
    {k \in 1..Len(py.ofm) :
        \E o \in objects :
           /\ o.run = run /\ o.name = "Emergence_Blob"
           /\ \E e \in 1..Len(o.elems) :
                 o.elems[e][1][1] = py.ofm[k][1] /\ o.elems[e][1][2] = py.ofm[k][2]}

\* C14 as stated: the v4 metaball receives at most 12 elements, and when
\* more than 12 cells were recorded (emergence > 0.7) the cells that
\* received one are those with the 12 highest emergence values among the
\* recorded cells.
C14_Original ==
    script = "vignelli_v4" /\ status = "done" =>
       /\ Cardinality(Chosen) <= V4_ELEMENT_LIMIT
       /\ Len(py.ofm) > V4_ELEMENT_LIMIT =>
             /\ Cardinality(Chosen) = V4_ELEMENT_LIMIT
             /\ \A k \in Chosen : \A j \in (1..Len(py.ofm)) \ Chosen :
                   py.ofm[k][4] >= py.ofm[j][4]

\* the staircases of the villas: the names of their steps from i = 0 up
Staircases(s) ==
    IF s = "palladian_villa"
    THEN { [i \in 1..PV_stairs_steps |-> "Step_" \o ToString(i - 1)] }
    ELSE { [i \in 1..VR_num_steps |-> "Stairs_" \o suffix \o "_" \o ToString(i - 1)] :
              suffix \in {"N", "E", "S", "W"} }

\* the square of the horizontal distance of an object's centre from the
\* building centre (0, 0), in squares of 100 units (every centre
\* coordinate is a multiple of 100 units)
Dist2(o) == (o.loc[1] \div 100) * (o.loc[1] \div 100) + (o.loc[2] \div 100) * (o.loc[2] \div 100)

\* C15 as stated: in both villa scripts every staircase ascends toward the
\* building: step i+1 is higher than step i and its centre is strictly
\* closer to the building centre.
C15_Original ==
    script \in {"palladian_villa", "villa_rotonda"} /\ status = "done" =>
       \A stairs \in Staircases(script) : \A i \in 1..(Len(stairs) - 1) :
          /\ Named(stairs[i + 1]).loc[3] > Named(stairs[i]).loc[3]
          /\ Dist2(Named(stairs[i + 1])) < Dist2(Named(stairs[i]))

\* the same for palladian_villa alone
C15_PalladianAscends ==
    script = "palladian_villa" /\ status = "done" =>
       \A stairs \in Staircases(script) : \A i \in 1..(Len(stairs) - 1) :
          /\ Named(stairs[i + 1]).loc[3] > Named(stairs[i]).loc[3]
          /\ Dist2(Named(stairs[i + 1])) < Dist2(Named(stairs[i]))
=============================================================================
